---- MODULE Spec2Model ----
(***************************************************************************)
(* Model of bin/runbalfinder_hp.py: the batch driver that runs the BAL     *)
(* finder over the healpix directories of a DESI data release.             *)
(*                                                                         *)
(* Strings are sequences of tokens.  Every character the script inspects   *)
(* on its own (the characters of a healpix name, the "/" separators, the   *)
(* "coadd-" prefix) is a token; text the script only copies is one token.  *)
(* The output filesystem persists from one run of the script to the next.  *)
(***************************************************************************)
EXTENDS Integers, Sequences, FiniteSets, TLC

\* ---- bounds ----
MaxReq == 2        \* longest --healpix list
MaxRuns == 2       \* number of consecutive runs of the script

\* ---- configuration (argparse defaults, environment) ----
DESI_SPECTRO_REDUX == <<"/global/cfs/cdirs/desi/spectro/redux">>
Release == <<"everest">>
Survey == <<"main">>
Moon == <<"dark">>
OutdirArg == <<"outdir">>
Verbose == TRUE

U100 == <<"1", "0", "0">>
U1001 == <<"1", "0", "0", "1">>
U25 == <<"2", "5">>
Units == {U100, U1001, U25}
Digits == {"0", "1", "2", "5"}

ExcTypes == {"OSError", "SystemExit"}

\* ---- string helpers ----
Min(a, b) == IF a < b THEN a ELSE b

Last(s) == s[Len(s)]

PrefixShort(s, n) == SubSeq(s, 1, Min(n - 1, Len(s)))

\* s[:n]
Prefix(s, n) == SubSeq(s, 1, Min(n, Len(s)))

\* s.rfind('/') as a 1-based position, 0 when absent
RFindSlash(s) ==
    LET P == {p \in 1..Len(s) : s[p] = "/"}
    IN IF P = {} THEN 0 ELSE CHOOSE p \in P : \A q \in P : q <= p

\* healpixdir[healpixdir.rfind('/')+1::]
BasenameOf(s) == SubSeq(s, RFindSlash(s) + 1, Len(s))

\* os.path.join(a, b)
Join2(a, b) ==
    IF b # <<>> /\ b[1] = "/" THEN b
    ELSE IF a = <<>> \/ Last(a) = "/" THEN a \o b
    ELSE a \o <<"/">> \o b

Join3(a, b, c) == Join2(Join2(a, b), c)

Join5(a, b, c, d, e) == Join2(Join2(Join3(a, b, c), d), e)

\* s.replace(old, new) for a one-token old
RECURSIVE Replace(_, _, _)
Replace(s, old, new) ==
    IF s = <<>> THEN <<>>
    ELSE IF s[1] = old THEN <<new>> \o Replace(Tail(s), old, new)
    ELSE <<s[1]>> \o Replace(Tail(s), old, new)

\* "{}".format(list of str): the repr of the list
RECURSIVE ReprItems(_)
ReprItems(l) ==
    IF l = <<>> THEN <<>>
    ELSE <<"'">> \o l[1] \o <<"'">>
         \o (IF Len(l) > 1 THEN <<",", " ">> ELSE <<>>) \o ReprItems(Tail(l))

FormatList(l) == <<"[">> \o ReprItems(l) \o <<"]">>

\* directories os.makedirs(direct) brings into existence
Ancestors(d) ==
    {SubSeq(d, 1, p - 1) : p \in {q \in 2..Len(d) : d[q] = "/"}} \cup {d}

\* ---- paths ----
dataroot == Join5(DESI_SPECTRO_REDUX, Release, <<"healpix">>, Survey, Moon)

outroot == Join5(OutdirArg, Release, <<"healpix">>, Survey, Moon)

CoaddFileName(hp) ==
    <<"coadd-">> \o Survey \o <<"-">> \o Moon \o <<"-">> \o hp \o <<".fits">>

BalFileName(hp) == Replace(CoaddFileName(hp), "coadd-", "baltable-")

\* os.path.join(root, x[:3], x)
BucketDir(root, x) == Join3(root, Prefix(x, 3), x)

\* ---- the external collaborator db.desibalfinder ----
\* the catalog a normal return leaves behind: the coadd's name with the
\* fixed substitution, inside altbaldir
DesibalfinderCatalog(specfilename, altbaldir) ==
    Join2(altbaldir, Replace(BasenameOf(specfilename), "coadd-", "baltable-"))

\* ---- inputs ----
SeqsUpTo(S, n) == UNION {[1..m -> S] : m \in 0..n}

\* what glob(dataroot + "/*/*") can return: the data tree holds any subset of
\* the units, listed in any order
GlobResults ==
    {[j \in 1..Len(l) |-> BucketDir(dataroot, l[j])] :
        l \in {q \in SeqsUpTo(Units, Cardinality(Units)) :
                   \A a, b \in 1..Len(q) : a # b => q[a] # q[b]}}

\* args.healpix is None (given = FALSE) or a list of names
ArgSets ==
    {[given |-> g, healpix |-> h, clobber |-> c] :
        g \in BOOLEAN, h \in SeqsUpTo(Units, MaxReq), c \in BOOLEAN}

Args == {a \in ArgSets : ~a.given => a.healpix = <<>>}

VARIABLES
    fsdirs,          \* directories that exist under the output root
    fsfiles,         \* files that exist under the output root
    healpixdirs,     \* result of the glob over the input tree
    args,            \* parsed command line of the current run
    pc,              \* position in the script
    healpixels,      \* names of all available healpix
    inputhealpixels, \* the selected healpix
    inputhealpix,    \* loop variable of the scaffolding loop (<<>> = unbound)
    i,               \* index of the scaffolding loop
    k,               \* index of the per-healpix loop
    issuehealpixels,
    errortypes,
    status,          \* exit status, -1 while the script runs
    abort,           \* why the run ended early
    assertmsg,       \* message of the failed assert
    summary,         \* lines printed after the header of the final report
    summaryPrinted,
    attempts,        \* history: what the per-healpix loop did at each position
    created,         \* history: directories this run created
    fs0,             \* history: the filesystem when this run started
    rerun,           \* history: the run before this one ran to its summary
    run

vars == <<fsdirs, fsfiles, healpixdirs, args, pc, healpixels, inputhealpixels,
          inputhealpix, i, k, issuehealpixels, errortypes, status, abort,
          assertmsg, summary, summaryPrinted, attempts, created, fs0, rerun, run>>

progvars == <<healpixels, inputhealpixels, inputhealpix, i, k, issuehealpixels,
              errortypes, assertmsg, summary, summaryPrinted, attempts>>

\* the catalog of a unit at its place in the mirrored output layout
CatalogOf(u) == Join2(BucketDir(outroot, u), BalFileName(u))

Init ==
    /\ \E rootexists \in BOOLEAN, F \in SUBSET Units :
            /\ rootexists \/ F = {}
            /\ fsdirs = IF rootexists
                        THEN Ancestors(outroot)
                             \cup UNION {Ancestors(BucketDir(outroot, u)) : u \in F}
                        ELSE {}
            /\ fsfiles = {CatalogOf(u) : u \in F}
    /\ healpixdirs \in GlobResults
    /\ args \in Args
    /\ pc = "start"
    /\ healpixels = <<>>
    /\ inputhealpixels = <<>>
    /\ inputhealpix = <<>>
    /\ i = 1
    /\ k = 1
    /\ issuehealpixels = <<>>
    /\ errortypes = <<>>
    /\ status = -1
    /\ abort = "none"
    /\ assertmsg = <<>>
    /\ summary = <<>>
    /\ summaryPrinted = FALSE
    /\ attempts = <<>>
    /\ created = {}
    /\ fs0 = [dirs |-> fsdirs, files |-> fsfiles]
    /\ rerun = FALSE
    /\ run = 1

\* pmmkdir(direct), continuing at nextpc when it returns
pmmkdir(direct, nextpc) ==
    IF direct \in fsdirs
    THEN /\ pc' = nextpc
         /\ UNCHANGED <<fsdirs, created, status, abort>>
    ELSE \E r \in {"ok", "PermissionError", "OSError"} :
            \/ /\ r = "ok"
               /\ fsdirs' = fsdirs \cup Ancestors(direct)
               /\ created' = created \cup (Ancestors(direct) \ fsdirs)
               /\ pc' = nextpc
               /\ UNCHANGED <<status, abort>>
            \/ /\ r = "PermissionError"      \* message, then exit(1)
               /\ status' = 1
               /\ abort' = "permission"
               /\ pc' = "done"
               /\ UNCHANGED <<fsdirs, created>>
            \/ /\ r = "OSError"              \* not caught: traceback, status 1
               /\ status' = 1
               /\ abort' = "oserror"
               /\ pc' = "done"
               /\ UNCHANGED <<fsdirs, created>>

\* parse_args .. pmmkdir(outroot)
Start ==
    /\ pc = "start"
    /\ pmmkdir(outroot, "discover")
    /\ UNCHANGED <<fsfiles, healpixdirs, args, progvars, fs0, rerun, run>>

MissingNone(req, avail) == {}

\* positions of the requested names that are not in the available ones
Missing(req, avail) ==
    {p \in 1..Len(req) : \A q \in 1..Len(avail) : avail[q] # req[p]}

\* glob, healpixels, membership assert, selection
Discover ==
    /\ pc = "discover"
    /\ LET hps == [j \in 1..Len(healpixdirs) |-> BasenameOf(healpixdirs[j])]
           sel == IF args.given THEN args.healpix ELSE hps
       IN /\ healpixels' = hps
          /\ IF args.given /\ Missing(args.healpix, hps) # {}
             THEN /\ assertmsg' = <<"Healpix ">> \o FormatList(args.healpix)
                                   \o <<" not available">>
                  /\ status' = 1
                  /\ abort' = "assert"
                  /\ pc' = "done"
                  /\ inputhealpixels' = args.healpix
             ELSE /\ inputhealpixels' = sel
                  /\ pc' = IF sel = <<>> THEN "summary" ELSE "scaffold"
                  /\ UNCHANGED <<assertmsg, status, abort>>
    /\ UNCHANGED <<fsdirs, fsfiles, healpixdirs, args, inputhealpix, i, k,
                   issuehealpixels, errortypes, summary, summaryPrinted,
                   attempts, created, fs0, rerun, run>>

ScaffoldFirstOnly ==
    /\ pc = "scaffold"
    /\ i <= Len(inputhealpixels)
    /\ inputhealpix' = inputhealpixels[i]
    /\ i' = i + 1
    /\ pmmkdir(BucketDir(outroot, inputhealpixels[i]), "loop")
    /\ UNCHANGED <<fsfiles, healpixdirs, args, healpixels, inputhealpixels, k,
                   issuehealpixels, errortypes, assertmsg, summary,
                   summaryPrinted, attempts, fs0, rerun, run>>

\* one iteration of the loop that creates the output directories
Scaffold ==
    /\ pc = "scaffold"
    /\ i <= Len(inputhealpixels)
    /\ inputhealpix' = inputhealpixels[i]
    /\ i' = i + 1
    /\ pmmkdir(BucketDir(outroot, inputhealpixels[i]),
               IF i = Len(inputhealpixels) THEN "loop" ELSE "scaffold")
    /\ UNCHANGED <<fsfiles, healpixdirs, args, healpixels, inputhealpixels, k,
                   issuehealpixels, errortypes, assertmsg, summary,
                   summaryPrinted, attempts, fs0, rerun, run>>

\* names computed at the top of an iteration of the per-healpix loop
healpix == inputhealpixels[k]

coaddfilename == CoaddFileName(healpix)

balfilename == Replace(coaddfilename, "coadd-", "baltable-")

indir == BucketDir(dataroot, inputhealpix)

outdir == BucketDir(outroot, inputhealpix)

coaddfile == Join2(indir, coaddfilename)

balfile == Join2(outdir, balfilename)

Attempt(kind, etype) ==
    [healpix |-> healpix, kind |-> kind, etype |-> etype,
     coaddfile |-> coaddfile, altbaldir |-> outdir, overwrite |-> args.clobber,
     verbose |-> Verbose, release |-> Release,
     catalogexisted |-> CatalogOf(healpix) \in fsfiles]

LoopAdvanceBreak ==
    /\ k' = k + 1
    /\ pc' = "summary"
    /\ UNCHANGED <<fsdirs, healpixdirs, args, healpixels, inputhealpixels,
                   inputhealpix, i, status, abort, assertmsg, summary,
                   summaryPrinted, created, fs0, rerun, run>>

\* end of an iteration of the per-healpix loop
LoopAdvance ==
    /\ k' = k + 1
    /\ pc' = IF k = Len(inputhealpixels) THEN "summary" ELSE "loop"
    /\ UNCHANGED <<fsdirs, healpixdirs, args, healpixels, inputhealpixels,
                   inputhealpix, i, status, abort, assertmsg, summary,
                   summaryPrinted, created, fs0, rerun, run>>

\* the output file exists and clobber is off: nothing is called
LoopSkip ==
    /\ pc = "loop"
    /\ k <= Len(inputhealpixels)
    /\ ~(balfile \notin fsfiles \/ args.clobber)
    /\ attempts' = Append(attempts, Attempt("skip", "none"))
    /\ LoopAdvance
    /\ UNCHANGED <<fsfiles, issuehealpixels, errortypes>>

\* desibalfinder is called and returns
LoopCallReturns ==
    /\ pc = "loop"
    /\ k <= Len(inputhealpixels)
    /\ balfile \notin fsfiles \/ args.clobber
    /\ fsfiles' = fsfiles \cup {DesibalfinderCatalog(coaddfile, outdir)}
    /\ attempts' = Append(attempts, Attempt("ok", "none"))
    /\ LoopAdvance
    /\ UNCHANGED <<issuehealpixels, errortypes>>

LoopCallRaisesUncaught ==
    /\ pc = "loop"
    /\ k <= Len(inputhealpixels)
    /\ balfile \notin fsfiles \/ args.clobber
    /\ \E errortype \in ExcTypes :
          attempts' = Append(attempts, Attempt("raise", errortype))
    /\ status' = 1
    /\ pc' = "done"
    /\ UNCHANGED <<fsdirs, fsfiles, healpixdirs, args, healpixels,
                   inputhealpixels, inputhealpix, i, k, issuehealpixels,
                   errortypes, abort, assertmsg, summary, summaryPrinted,
                   created, fs0, rerun, run>>

LoopCallRaisesNoType ==
    /\ pc = "loop"
    /\ k <= Len(inputhealpixels)
    /\ balfile \notin fsfiles \/ args.clobber
    /\ \E errortype \in ExcTypes :
          /\ issuehealpixels' = Append(issuehealpixels, healpix)
          /\ errortypes' = errortypes
          /\ attempts' = Append(attempts, Attempt("raise", errortype))
    /\ LoopAdvance
    /\ UNCHANGED fsfiles

\* desibalfinder is called and raises
LoopCallRaises ==
    /\ pc = "loop"
    /\ k <= Len(inputhealpixels)
    /\ balfile \notin fsfiles \/ args.clobber
    /\ \E errortype \in ExcTypes :
          /\ issuehealpixels' = Append(issuehealpixels, healpix)
          /\ errortypes' = Append(errortypes, errortype)
          /\ attempts' = Append(attempts, Attempt("raise", errortype))
    /\ LoopAdvance
    /\ UNCHANGED fsfiles

\* the final report, then the script ends
Summary ==
    /\ pc = "summary"
    /\ summary' = [j \in 1..Len(issuehealpixels) |->
                      <<issuehealpixels[j], errortypes[j]>>]
    /\ summaryPrinted' = TRUE
    /\ status' = 0
    /\ pc' = "done"
    /\ UNCHANGED <<fsdirs, fsfiles, healpixdirs, args, healpixels,
                   inputhealpixels, inputhealpix, i, k, issuehealpixels,
                   errortypes, abort, assertmsg, attempts, created, fs0, rerun, run>>

\* the script is started again, for the same --healpix list, on the
\* filesystem the last run left
NextRun ==
    /\ pc = "done"
    /\ run < MaxRuns
    /\ run' = run + 1
    /\ \E c \in BOOLEAN : args' = [args EXCEPT !.clobber = c]
    /\ rerun' = summaryPrinted
    /\ fs0' = [dirs |-> fsdirs, files |-> fsfiles]
    /\ pc' = "start"
    /\ healpixels' = <<>>
    /\ inputhealpixels' = <<>>
    /\ inputhealpix' = <<>>
    /\ i' = 1
    /\ k' = 1
    /\ issuehealpixels' = <<>>
    /\ errortypes' = <<>>
    /\ status' = -1
    /\ abort' = "none"
    /\ assertmsg' = <<>>
    /\ summary' = <<>>
    /\ summaryPrinted' = FALSE
    /\ attempts' = <<>>
    /\ created' = {}
    /\ UNCHANGED <<fsdirs, fsfiles, healpixdirs>>

Next ==
    \/ Start
    \/ Discover
    \/ Scaffold
    \/ LoopSkip
    \/ LoopCallReturns
    \/ LoopCallRaises
    \/ Summary
    \/ NextRun

Spec == Init /\ [][Next]_vars

\* ======================= properties =======================

\* the paths of the documented layout, written out
ExpectedDataRoot ==
    <<"/global/cfs/cdirs/desi/spectro/redux", "/", "everest", "/", "healpix",
      "/", "main", "/", "dark">>

ExpectedOutRoot ==
    <<"outdir", "/", "everest", "/", "healpix", "/", "main", "/", "dark">>

First3(u) == IF Len(u) <= 3 THEN u ELSE <<u[1], u[2], u[3]>>

ExpectedInput(u) ==
    ExpectedDataRoot \o <<"/">> \o First3(u) \o <<"/">> \o u
        \o <<"/", "coadd-", "main", "-", "dark", "-">> \o u \o <<".fits">>

ExpectedOutDir(u) == ExpectedOutRoot \o <<"/">> \o First3(u) \o <<"/">> \o u

ExpectedCatalog(u) ==
    ExpectedOutDir(u) \o <<"/", "baltable-", "main", "-", "dark", "-">> \o u
        \o <<".fits">>

Invoked(j) == attempts[j].kind # "skip"

Available == {BasenameOf(healpixdirs[j]) : j \in 1..Len(healpixdirs)}

\* the <<unit, type>> pairs of the positions whose call raised, in order
RECURSIVE RaisedPairs(_)
RaisedPairs(a) ==
    IF a = <<>> THEN <<>>
    ELSE (IF a[1].kind = "raise" THEN <<<<a[1].healpix, a[1].etype>>>> ELSE <<>>)
         \o RaisedPairs(Tail(a))

RECURSIVE IsSubseq(_, _)
IsSubseq(a, b) ==
    IF a = <<>> THEN TRUE
    ELSE IF b = <<>> THEN FALSE
    ELSE IF a[1] = b[1] THEN IsSubseq(Tail(a), Tail(b))
    ELSE IsSubseq(a, Tail(b))

\* units a message names: the unit's characters, not part of a longer number
NamedUnits(msg) ==
    {u \in Units :
        \E p \in 1..(Len(msg) - Len(u) + 1) :
            /\ SubSeq(msg, p, p + Len(u) - 1) = u
            /\ (p = 1 \/ msg[p - 1] \notin Digits)
            /\ (p + Len(u) > Len(msg) \/ msg[p + Len(u)] \notin Digits)}

\* C1: every call of the detection routine gets the input path
\* dataroot/<u[:3]>/<u>/coadd-<survey>-<moon>-<u>.fits and the output
\* directory outroot/<u[:3]>/<u> of the unit u being processed.
C1_PathsOfCurrentUnit ==
    \A j \in 1..Len(attempts) :
        Invoked(j) =>
            /\ attempts[j].coaddfile = ExpectedInput(attempts[j].healpix)
            /\ attempts[j].altbaldir = ExpectedOutDir(attempts[j].healpix)

\* C2: a unit whose output catalog exists when it is reached, with clobber
\* off, is never handed to the detection routine.
C2_ExistingCatalogNotInvoked ==
    \A j \in 1..Len(attempts) :
        (attempts[j].catalogexisted /\ ~attempts[j].overwrite) => ~Invoked(j)

\* C3 as stated: when the summary is printed every selected unit has been
\* attempted and a unit whose call raised appears in the summary exactly
\* once, with the type raised for it.
C3_FailedUnitOnceInSummary ==
    summaryPrinted =>
        /\ Len(attempts) = Len(inputhealpixels)
        /\ \A j \in 1..Len(attempts) :
              attempts[j].kind = "raise" =>
                 /\ Cardinality({q \in 1..Len(summary) :
                                   summary[q][1] = attempts[j].healpix}) = 1
                 /\ \E q \in 1..Len(summary) :
                       summary[q] = <<attempts[j].healpix, attempts[j].etype>>

\* C3 amended: when the summary is printed every position of the selected
\* list has been attempted, and the summary holds one line for each position
\* whose call raised, in order, with the unit and the type raised there.
C3_SummaryListsEachRaise ==
    summaryPrinted =>
        /\ Len(attempts) = Len(inputhealpixels)
        /\ \A j \in 1..Len(attempts) : attempts[j].healpix = inputhealpixels[j]
        /\ summary = RaisedPairs(attempts)

C3_Witness ==
    /\ summaryPrinted
    /\ Len(attempts) = 2
    /\ attempts[1].kind = "raise"
    /\ attempts[2].kind = "ok"
    /\ Len(summary) = 1

\* C4: when a requested unit is not among the discovered ones the run creates
\* no directory below the output root, calls nothing and prints no summary.
C4_MissingUnitAborts ==
    (args.given /\ \E p \in 1..Len(args.healpix) : args.healpix[p] \notin Available) =>
        /\ created \subseteq Ancestors(ExpectedOutRoot)
        /\ attempts = <<>>
        /\ ~summaryPrinted
        /\ (pc = "done" => status # 0)

C4_Witness ==
    /\ abort = "assert"
    /\ ExpectedOutRoot \in created
    /\ \E p \in 1..Len(args.healpix) : args.healpix[p] \in Available

\* C5 as stated: before the first call every discovered unit has its output
\* directory.
C5_AllDiscoveredScaffolded ==
    (\E j \in 1..Len(attempts) : Invoked(j)) =>
        \A u \in Available : ExpectedOutDir(u) \in fsdirs

\* C5 amended: before the per-unit loop attempts anything the scaffolding
\* loop has ended and every selected unit has its output directory.
C5_AllSelectedScaffolded ==
    (pc \in {"loop", "summary"} \/ attempts # <<>>) =>
        /\ i > Len(inputhealpixels)
        /\ \A j \in 1..Len(inputhealpixels) :
              ExpectedOutDir(inputhealpixels[j]) \in fsdirs

C5_Witness ==
    /\ \E j \in 1..Len(attempts) : Invoked(j)
    /\ Len(inputhealpixels) = 2
    /\ inputhealpixels[1] # inputhealpixels[2]
    /\ ExpectedOutDir(inputhealpixels[1]) \in created
    /\ ExpectedOutDir(inputhealpixels[2]) \in created

\* C6 as stated: the exit status is non-zero only after a failed directory
\* creation; every other run, one whose requested unit is not found included,
\* ends with status 0.
C6_NonZeroOnlyOnMkdirFailure ==
    (pc = "done" /\ abort \notin {"permission", "oserror"}) => status = 0

\* C6 amended: the exit status is non-zero exactly when a directory creation
\* failed or a requested unit was not found; a run in which the detection
\* routine raised still prints the summary and ends with status 0.
C6_ExitStatus ==
    pc = "done" =>
        /\ status \in {0, 1}
        /\ status = 1 <=> abort \in {"permission", "oserror", "assert"}
        /\ abort = "assert" <=> assertmsg # <<>>
        /\ status = 0 <=> summaryPrinted
        /\ issuehealpixels # <<>> => status = 0

C6_Witness ==
    /\ pc = "done"
    /\ status = 0
    /\ Len(issuehealpixels) = 2

\* C7: a repeated run with clobber off, on units whose catalogs all exist,
\* calls nothing, records no failure and leaves the filesystem as it was.
C7_IdempotentSkip ==
    ( /\ rerun
      /\ ~args.clobber
      /\ pc \in {"loop", "summary", "done"}
      /\ abort = "none"
      /\ inputhealpixels # <<>>
      /\ \A j \in 1..Len(inputhealpixels) :
            ExpectedCatalog(inputhealpixels[j]) \in fs0.files ) =>
        /\ \A j \in 1..Len(attempts) : ~Invoked(j)
        /\ issuehealpixels = <<>>
        /\ fsfiles = fs0.files
        /\ fsdirs = fs0.dirs

\* C8: for --healpix 100 with the default release, survey and moon the input
\* path is <DESI_SPECTRO_REDUX>/everest/healpix/main/dark/100/100/
\* coadd-main-dark-100.fits and the output path is <outdir>/everest/healpix/
\* main/dark/100/100/baltable-main-dark-100.fits.
C8_ExamplePaths ==
    (args.given /\ args.healpix = <<U100>> /\ pc = "loop" /\ k <= Len(inputhealpixels)) =>
        /\ coaddfile =
             <<"/global/cfs/cdirs/desi/spectro/redux", "/", "everest", "/",
               "healpix", "/", "main", "/", "dark", "/", "1", "0", "0", "/",
               "1", "0", "0", "/", "coadd-", "main", "-", "dark", "-",
               "1", "0", "0", ".fits">>
        /\ balfile =
             <<"outdir", "/", "everest", "/", "healpix", "/", "main", "/",
               "dark", "/", "1", "0", "0", "/", "1", "0", "0", "/",
               "baltable-", "main", "-", "dark", "-", "1", "0", "0", ".fits">>

C8_Witness ==
    /\ args.given
    /\ args.healpix = <<U100>>
    /\ pc = "loop"
    /\ k = 1
    /\ balfile \notin fsfiles

\* C9: the message of the failed membership assert names the first requested
\* unit that is not available, and no unit that is available.
C9_MessageNamesOffendingUnit ==
    abort = "assert" =>
        LET miss == {p \in 1..Len(args.healpix) : args.healpix[p] \notin Available}
            first == CHOOSE p \in miss : \A q \in miss : p <= q
        IN NamedUnits(assertmsg) = {args.healpix[first]}

\* C10 as stated: the two failure sequences have the same length and pair up,
\* the failed units are a subsequence of the selected list, and no unit that
\* was skipped or whose call returned appears among them.
C10_FailureRecordByUnit ==
    /\ Len(issuehealpixels) = Len(errortypes)
    /\ [j \in 1..Len(issuehealpixels) |-> <<issuehealpixels[j], errortypes[j]>>]
          = RaisedPairs(attempts)
    /\ IsSubseq(issuehealpixels, inputhealpixels)
    /\ \A j \in 1..Len(attempts) :
          attempts[j].kind \in {"skip", "ok"} =>
             \A q \in 1..Len(issuehealpixels) :
                issuehealpixels[q] # attempts[j].healpix

\* C10 amended: the two failure sequences have the same length, entry n of
\* both comes from the n-th call that raised, the failed units are a
\* subsequence of the selected list, and a position that was skipped or
\* whose call returned adds no entry.
C10_FailureRecordByPosition ==
    /\ Len(issuehealpixels) = Len(errortypes)
    /\ [j \in 1..Len(issuehealpixels) |-> <<issuehealpixels[j], errortypes[j]>>]
          = RaisedPairs(attempts)
    /\ IsSubseq(issuehealpixels, inputhealpixels)
    /\ Len(issuehealpixels)
          = Cardinality({j \in 1..Len(attempts) : attempts[j].kind = "raise"})

C10_Witness ==
    /\ pc = "loop"
    /\ Len(attempts) = 2
    /\ attempts[1].kind = "raise"
    /\ attempts[2].kind = "skip"
    /\ Len(issuehealpixels) = 1

====
